---- MODULE Spec2Model ----
(***************************************************************************)
(* GoogleDriveHandler (src/google_drive.py): folder-id parsing, the public *)
(* (scraping) and the authenticated (API) listing, the recursive listing,  *)
(* the two-path download and the folder download.                          *)
(*                                                                         *)
(* Text (urls, ids, names, paths) is a sequence of one-character strings,  *)
(* so that split, replace, lower and endswith are computed as Python does. *)
(* The provider (pages, API responses, request failures) is the            *)
(* environment: every answer is drawn from a small set when it is asked.   *)
(***************************************************************************)
EXTENDS Naturals, Sequences, FiniteSets

VARIABLES
    service,          \* self.service: TRUE when a session was built
    pc,               \* "idle" | "recurse" | "downloads" | "done"
    call,             \* the operation being run and its arguments
    denotes,          \* the folder id the caller's url was written for
    stack,            \* activation records of _recurse_folder, innermost last
    all_files,        \* list_folder_recursive: all_files
    under,            \* per record of all_files: the names of the subfolders entered
                      \* on the way from the root folder to the record's folder
    queries,          \* list queries issued by the running recursive listing
    trace,            \* those queries in order: the folder asked for, whether the
                      \* query was answered, and the items of the answer
    files,            \* download_folder: files
    idx,              \* download_folder: position of the for loop in files
    downloaded_files, \* download_folder: downloaded_files
    attempts,         \* download_folder: per file of the loop, did download_file return
    result,           \* what the operation returned or raised
    log               \* the public attempts and the provider API calls of the running
                      \* list_folder_files, list_folder_recursive or download_file, in order

vars == <<service, pc, call, denotes, stack, all_files, under, queries, trace, files, idx,
          downloaded_files, attempts, result, log>>

----------------------------------------------------------------------------
(* Bounds of the model *)

\* other query parameters of an url, besides id
MaxParams == 2
\* items in one answer of the provider to a list query
MaxItems == 2
\* list queries of one recursive listing
MaxQueries == 3
\* candidate ids extracted from one public folder page
MaxCandidates == 2

----------------------------------------------------------------------------
(* Text *)

SEP_FOLDERS == <<"/", "f", "o", "l", "d", "e", "r", "s", "/">>
SEP_ID == <<"i", "d", "=">>
QMARK == <<"?">>
AMP == <<"&">>
SLASH == <<"/">>
EXT_PDF == <<".", "p", "d", "f">>
EXT_GDOC == <<".", "g", "d", "o", "c">>
EXT_DOC == <<".", "d", "o", "c">>
EXT_DOCX == <<".", "d", "o", "c", "x">>
EXT_JPG == <<".", "j", "p", "g">>
EXT_JPEG == <<".", "j", "p", "e", "g">>
EXT_PNG == <<".", "p", "n", "g">>
TITLE_SUFFIX == <<" ", "-", " ", "G", "o", "o", "g", "l", "e", " ", "D", "r", "i", "v", "e">>
FILE_PREFIX == <<"f", "i", "l", "e", "_">>
PREFIX_GOOGLE_APPS == <<"a", "p", "p", "l", "i", "c", "a", "t", "i", "o", "n", "/", "v", "n", "d", ".", "g", "o", "o", "g", "l", "e", "-", "a", "p", "p", "s">>
WORD_DOCUMENT == <<"d", "o", "c", "u", "m", "e", "n", "t">>

\* s[i..] starts with p
MatchAt(s, p, i) ==
    /\ i + Len(p) - 1 <= Len(s)
    /\ \A k \in 1..Len(p) : s[i + k - 1] = p[k]

\* p in s
Contains(s, p) == \E i \in 1..(Len(s) + 1) : MatchAt(s, p, i)

\* s.startswith(p), s.endswith(p)
StartsWith(s, p) == MatchAt(s, p, 1)
EndsWith(s, p) == Len(p) <= Len(s) /\ MatchAt(s, p, Len(s) - Len(p) + 1)

\* the first position at which p occurs in s (p occurs in s)
FirstAt(s, p) == CHOOSE i \in 1..(Len(s) + 1) :
    MatchAt(s, p, i) /\ \A j \in 1..(i - 1) : ~MatchAt(s, p, j)

\* s.split(p): the pieces between the occurrences of p, found left to right
RECURSIVE Split(_, _)
Split(s, p) ==
    IF ~Contains(s, p) THEN <<s>>
    ELSE LET i == FirstAt(s, p)
         IN  <<SubSeq(s, 1, i - 1)>> \o Split(SubSeq(s, i + Len(p), Len(s)), p)

\* sep.join(parts)
RECURSIVE Join(_, _)
Join(parts, sep) ==
    IF Len(parts) = 0 THEN <<>>
    ELSE IF Len(parts) = 1 THEN parts[1]
    ELSE parts[1] \o sep \o Join(Tail(parts), sep)

\* s.replace(old, new)
Replace(s, old, new) == Join(Split(s, old), new)

\* c.lower() for the letters the names of the model use
LowerChar(c) ==
    CASE c = "P" -> "p" [] c = "D" -> "d" [] c = "F" -> "f" [] c = "B" -> "b"
      [] c = "G" -> "g" [] c = "S" -> "s" [] c = "T" -> "t" [] c = "R" -> "r"
      [] OTHER -> c

\* s.lower()
Lower(s) == [i \in 1..Len(s) |-> LowerChar(s[i])]

\* s.strip()
RECURSIVE Strip(_)
Strip(s) ==
    IF Len(s) = 0 THEN s
    ELSE IF s[1] = " " THEN Strip(Tail(s))
    ELSE IF s[Len(s)] = " " THEN Strip(SubSeq(s, 1, Len(s) - 1))
    ELSE s

\* the sequences without repetition over S of length at most n
RECURSIVE SeqsUpTo(_, _)
SeqsUpTo(S, n) ==
    IF n = 0 THEN {<<>>}
    ELSE LET shorter == SeqsUpTo(S, n - 1)
         IN  shorter \cup {Append(q, x) : q \in shorter, x \in S}

Range(q) == {q[i] : i \in 1..Len(q)}
Distinct(q) == \A i, j \in 1..Len(q) : i # j => q[i] # q[j]
DistinctSeqsUpTo(S, n) == {q \in SeqsUpTo(S, n) : Distinct(q)}

----------------------------------------------------------------------------
(* extract_folder_id *)

extract_folder_id(folder_url) ==
    IF Contains(folder_url, SEP_FOLDERS)
    THEN LET parts == Split(folder_url, SEP_FOLDERS)
         IN  Split(parts[Len(parts)], QMARK)[1]
    ELSE IF Contains(folder_url, SEP_ID)
    THEN LET parts == Split(folder_url, SEP_ID)
         IN  Split(parts[Len(parts)], AMP)[1]
    ELSE folder_url

----------------------------------------------------------------------------
(* The urls a caller writes for a folder *)

URL_DRIVE == <<"h", "t", "t", "p", "s", ":", "/", "/", "d", "r", "i", "v", "e", ".", "g", "o", "o", "g", "l", "e", ".", "c", "o", "m", "/", "d", "r", "i", "v", "e">>
URL_OPEN == <<"h", "t", "t", "p", "s", ":", "/", "/", "d", "r", "i", "v", "e", ".", "g", "o", "o", "g", "l", "e", ".", "c", "o", "m", "/", "o", "p", "e", "n", "?">>
PARAM_USP == <<"u", "s", "p", "=", "s", "h", "a", "r", "i", "n", "g">>
PARAM_OUID == <<"o", "u", "i", "d", "=", "1">>
PARAM_HL == <<"h", "l", "=", "e", "n">>

RootId == <<"R">>
FolderIdPool == {RootId, <<"A", "b", "1">>, <<"x", "-", "_">>}
OtherParams == {PARAM_USP, PARAM_OUID, PARAM_HL}

\* q with x inserted after its first k elements
InsertAt(q, k, x) == SubSeq(q, 1, k) \o <<x>> \o SubSeq(q, k + 1, Len(q))

\* F itself; .../folders/F and .../folders/F?query; ...?query with id=F among it
BareUrls == {[url |-> F, denotes |-> F] : F \in FolderIdPool}
FoldersUrls ==
    {[url |-> URL_DRIVE \o SEP_FOLDERS \o F
                 \o (IF Len(ps) = 0 THEN <<>> ELSE QMARK \o Join(ps, AMP)),
      denotes |-> F] : F \in FolderIdPool, ps \in DistinctSeqsUpTo(OtherParams, MaxParams)}
IdParamUrls ==
    UNION {{[url |-> URL_OPEN \o Join(InsertAt(ps, k, SEP_ID \o F), AMP),
             denotes |-> F] : k \in 0..Len(ps)}
           : F \in FolderIdPool, ps \in DistinctSeqsUpTo(OtherParams, MaxParams)}
Urls == BareUrls \cup FoldersUrls \cup IdParamUrls

\* the urls the listing and download operations are called with
RootUrls == {[url |-> RootId, denotes |-> RootId],
             [url |-> URL_DRIVE \o SEP_FOLDERS \o RootId \o QMARK \o PARAM_USP,
              denotes |-> RootId]}

----------------------------------------------------------------------------
(* State after construction, and the call of extract_folder_id *)

NoTypes == [none |-> TRUE, v |-> <<>>]
NoCall == [op |-> "none", folder_url |-> <<>>, file_types |-> NoTypes,
           recursive |-> FALSE, file_id |-> <<>>, file_name |-> <<>>]
NoResult == [kind |-> "none"]
Return(v) == [kind |-> "return", value |-> v]
Raise(m) == [kind |-> "raise", msg |-> m]

Blank ==
    /\ pc = "idle"
    /\ call = NoCall
    /\ stack = <<>>
    /\ all_files = <<>>
    /\ under = <<>>
    /\ queries = 0
    /\ trace = <<>>
    /\ files = <<>>
    /\ idx = 0
    /\ downloaded_files = <<>>
    /\ attempts = <<>>
    /\ result = NoResult
    /\ log = <<>>

\* __init__: a session exists or not; no folder url was given yet
Init ==
    /\ service \in BOOLEAN
    /\ denotes = <<>>
    /\ Blank

ExtractFolderId ==
    /\ pc = "idle"
    /\ \E u \in Urls :
        /\ call' = [NoCall EXCEPT !.op = "extract_folder_id", !.folder_url = u.url]
        /\ denotes' = u.denotes
        /\ result' = Return(extract_folder_id(u.url))
    /\ pc' = "done"
    /\ UNCHANGED <<service, stack, all_files, under, queries, trace, files, idx,
                   downloaded_files, attempts, log>>

NextParse == ExtractFolderId
SpecParse == Init /\ [][NextParse]_vars

----------------------------------------------------------------------------
(* MIME types *)

PDF == "application/pdf"
GDOC == "application/vnd.google-apps.document"
FOLDER == "application/vnd.google-apps.folder"
SHEET == "application/vnd.google-apps.spreadsheet"
DOCX == "application/vnd.openxmlformats-officedocument.wordprocessingml.document"
JPEG == "image/jpeg"
PNG == "image/png"
UNKNOWN == "unknown"

\* the characters of a MIME type
MimeText(m) ==
    CASE m = PDF -> <<"a", "p", "p", "l", "i", "c", "a", "t", "i", "o", "n", "/", "p", "d", "f">>
      [] m = GDOC -> PREFIX_GOOGLE_APPS \o <<".">> \o WORD_DOCUMENT
      [] m = FOLDER -> PREFIX_GOOGLE_APPS \o <<".", "f", "o", "l", "d", "e", "r">>
      [] m = SHEET -> PREFIX_GOOGLE_APPS \o <<".", "s", "p", "r", "e", "a", "d", "s", "h", "e", "e", "t">>
      [] m = DOCX -> <<"a", "p", "p", "l", "i", "c", "a", "t", "i", "o", "n", "/", "v", "n", "d", ".", "o", "p", "e", "n", "x", "m", "l", "f", "o", "r", "m", "a", "t", "s", "-", "o", "f", "f", "i", "c", "e", "d", "o", "c", "u", "m", "e", "n", "t", ".", "w", "o", "r", "d", "p", "r", "o", "c", "e", "s", "s", "i", "n", "g", "m", "l", ".">> \o WORD_DOCUMENT
      [] m = JPEG -> <<"i", "m", "a", "g", "e", "/", "j", "p", "e", "g">>
      [] m = PNG -> <<"i", "m", "a", "g", "e", "/", "p", "n", "g">>
      [] OTHER -> <<"u", "n", "k", "n", "o", "w", "n">>

\* the file_types arguments the operations are called with
SomeTypes(v) == [none |-> FALSE, v |-> v]
TypeArgs == {NoTypes, SomeTypes(<<PDF>>), SomeTypes(<<GDOC>>), SomeTypes(<<>>)}

----------------------------------------------------------------------------
(* The public folder page and the public file pages *)

NAME_A_PDF == <<"a", ".", "p", "d", "f">>
NAME_B_PDF == <<"B", ".", "P", "D", "F">>
NAME_R == <<"r">>
NAME_D_GDOC == <<"d", ".", "g", "d", "o", "c">>
NAME_N_DOCX == <<"n", ".", "d", "o", "c", "x">>
NAME_M_PDF == <<"m", ".", "p", "d", "f">>
NAME_J_GDOC == <<"j", ".", "g", "d", "o", "c">>

F1 == <<"f", "1">>
F2 == <<"f", "2">>
\* an identifier of 20 characters, as the script-block pattern wants them
LongId == [i \in 1..20 |-> "Z"]

\* the ids a folder page may mention
CandidateIds == {RootId, F1, F2, LongId}

\* what each pattern of list_folder_files_public matches in a folder page
Html(fileLinks, idParams, folderViews, dataItems, scriptIds) ==
    [fileLinks |-> fileLinks, idParams |-> idParams, folderViews |-> folderViews,
     dataItems |-> dataItems, scriptIds |-> scriptIds]

SmallSets(S, n) == {A \in SUBSET S : Cardinality(A) <= n}

\* pages on which one pattern matches (the script-block pattern only long ids)
Htmls ==
    UNION {{Html(A, {}, {}, {}, {}),
            Html({}, A, {}, {}, {}),
            Html({}, {}, {<<RootId, a>> : a \in A}, {}, {}),
            Html({}, {}, {}, A, {}),
            Html({}, {}, {}, {}, {a \in A : Len(a) >= 20})}
           : A \in SmallSets(CandidateIds, MaxCandidates)}

\* requests.get of a page: a failed request, or a response
Failed == [kind |-> "exc"]
FolderPages ==
    {Failed, [kind |-> "resp", status |-> 404, html |-> Html({}, {}, {}, {}, {})]}
    \cup {[kind |-> "resp", status |-> 200, html |-> h] : h \in Htmls}

\* a file page: what the <title>, og:title and "name" patterns match (<<>>: no match)
FilePage(st, title, meta, jsonld) ==
    [kind |-> "resp", status |-> st, title |-> title, meta |-> meta, jsonld |-> jsonld]
FilePages ==
    {Failed,
     FilePage(404, <<>>, <<>>, <<>>),
     FilePage(200, NAME_A_PDF \o TITLE_SUFFIX, <<>>, <<>>),
     FilePage(200, NAME_B_PDF \o TITLE_SUFFIX, <<>>, <<>>),
     FilePage(200, NAME_N_DOCX \o TITLE_SUFFIX, NAME_M_PDF, <<>>),
     FilePage(200, TITLE_SUFFIX, NAME_M_PDF, <<>>),
     FilePage(200, <<>>, <<>>, NAME_J_GDOC),
     FilePage(200, <<>>, <<>>, <<>>)}

\* the last-resort refetch of the folder page: its status, or a failed request
Refetches == {"exc", "non200", "ok"}

----------------------------------------------------------------------------
(* Log entries and error messages *)

\* one run of list_folder_files_public: the folder page's status (0: the request
\* failed), the candidate ids found, the outcome of the last-resort refetch
PublicListEntry(ok, status, found, refetch) ==
    [auth |-> FALSE, call |-> "list_folder_files_public", ok |-> ok,
     status |-> status, found |-> found, refetch |-> refetch]
\* one run of download_file_public: the status of the response written to the
\* file (0: no response was written), and the message of the error it raised
PublicDownloadEntry(ok, status, error) ==
    [auth |-> FALSE, call |-> "download_file_public", ok |-> ok, status |-> status,
     error |-> error]
\* one call of the provider's API through self.service
ApiEntry(name, ok) == [auth |-> TRUE, call |-> name, ok |-> ok]
ApiGetEntry(ok, mime) == [auth |-> TRUE, call |-> "files.get", ok |-> ok, mime |-> mime]

MSG_REQUEST_FAILED == "request failed"
MSG_CANNOT_ACCESS == "Cannot access folder. Status: "
MSG_NOT_PUBLIC == "Folder is not publicly accessible or error occurred: "
MSG_FOLDER_NEEDS_AUTH == "Folder requires authentication. Public access failed: "
MSG_AUTH_FOLDERS == "Please authenticate with OAuth2 to access private folders."
MSG_FILE_NEEDS_AUTH == "File requires authentication. Public download failed: "
MSG_AUTH_FILES == "Please authenticate with OAuth2 to access private files."
MSG_NOT_AUTHENTICATED == "Not authenticated with Google Drive"
MSG_UNSUPPORTED == "Unsupported Google Apps type: "
MSG_API_ERROR == "HttpError"
MSG_IO_ERROR == "OSError"

----------------------------------------------------------------------------
(* list_folder_files_public *)

ext_map(mime) ==
    CASE mime = PDF -> <<EXT_PDF>>
      [] mime = GDOC -> <<EXT_GDOC, EXT_DOC, EXT_DOCX>>
      [] mime = JPEG -> <<EXT_JPG, EXT_JPEG>>
      [] mime = PNG -> <<EXT_PNG>>
      [] OTHER -> <<>>

RECURSIVE allowed_extensions(_)
allowed_extensions(file_types) ==
    IF Len(file_types) = 0 THEN <<>>
    ELSE ext_map(Head(file_types)) \o allowed_extensions(Tail(file_types))

\* the union of what the patterns match; a folder-view match gives its second group
found_file_ids(html) ==
    html.fileLinks \cup html.idParams \cup {m[2] : m \in html.folderViews}
        \cup html.dataItems \cup html.scriptIds

\* the display name: <title> without " - Google Drive", else og:title, else "name",
\* else file_<id>
filename_of(page, file_id) ==
    LET byTitle == IF page.title # <<>>
                   THEN Strip(Replace(page.title, TITLE_SUFFIX, <<>>)) ELSE <<>>
        byMeta == IF byTitle # <<>> THEN byTitle
                  ELSE IF page.meta # <<>> THEN Strip(page.meta) ELSE <<>>
        byJson == IF byMeta # <<>> THEN byMeta
                  ELSE IF page.jsonld # <<>> THEN Strip(page.jsonld) ELSE <<>>
    IN  IF byJson # <<>> THEN byJson ELSE FILE_PREFIX \o file_id

\* any(filename.lower().endswith(ext) for ext in allowed_extensions)
extension_matches(filename, exts) ==
    \E k \in 1..Len(exts) : EndsWith(Lower(filename), exts[k])

public_record(file_id, filename) ==
    [id |-> file_id, name |-> filename,
     mimeType |-> IF EndsWith(Lower(filename), EXT_PDF) THEN PDF ELSE UNKNOWN,
     size |-> 0, createdTime |-> "None"]

\* one iteration of the loop over found_file_ids: what it appends to files, for
\* each answer to the request of the file page
candidate_outcomes(file_id, folder_id, exts) ==
    IF file_id = folder_id THEN {<<>>}
    ELSE {IF page.kind = "exc" THEN <<>>
          ELSE IF page.status # 200 THEN <<>>
          ELSE IF extension_matches(filename_of(page, file_id), exts)
          THEN <<public_record(file_id, filename_of(page, file_id))>>
          ELSE <<>>
          : page \in FilePages}

\* the loop over found_file_ids, taken in the order ids: the lists it may build
RECURSIVE scan_candidates(_, _, _)
scan_candidates(ids, folder_id, exts) ==
    IF Len(ids) = 0 THEN {<<>>}
    ELSE {first \o rest : first \in candidate_outcomes(Head(ids), folder_id, exts),
                          rest \in scan_candidates(Tail(ids), folder_id, exts)}

\* the mutant: the status of the folder page is not looked at
cannot_access_never(status) == FALSE

\* response.status_code != 200
cannot_access(status) == status # 200

\* the orders in which a set may be iterated
Orders(S) == {q \in DistinctSeqsUpTo(S, Cardinality(S)) : Len(q) = Cardinality(S)}

\* every outcome of list_folder_files_public: what it returns or raises, and its entry
list_folder_files_public(folder_url, file_types) ==
    LET folder_id == extract_folder_id(folder_url)
        types == IF file_types.none THEN <<PDF>> ELSE file_types.v
        exts == allowed_extensions(types)
        listed(found) ==
            UNION {scan_candidates(ids, folder_id, exts) : ids \in Orders(found)}
        of(page) ==
            IF page.kind = "exc"
            THEN {[result |-> Raise(<<MSG_NOT_PUBLIC, MSG_REQUEST_FAILED>>),
                   entry |-> PublicListEntry(FALSE, 0, {}, "none")]}
            ELSE IF cannot_access(page.status)
            THEN {[result |-> Raise(<<MSG_NOT_PUBLIC, MSG_CANNOT_ACCESS>>),
                   entry |-> PublicListEntry(FALSE, page.status, {}, "none")]}
            ELSE LET found == found_file_ids(page.html)
                 IN  UNION {IF fs # <<>>
                            THEN {[result |-> Return(fs),
                                   entry |-> PublicListEntry(TRUE, page.status, found,
                                                             "none")]}
                            ELSE {[result |-> Return(fs),
                                   entry |-> PublicListEntry(TRUE, page.status, found,
                                                             refetch)]
                                  : refetch \in Refetches}
                            : fs \in listed(found)}
    IN  UNION {of(page) : page \in FolderPages}

----------------------------------------------------------------------------
(* The provider's answers to a list query *)

\* files carry a size; folders and provider-native documents carry none
FileItem(id, name, mime) ==
    [id |-> id, name |-> name, mimeType |-> mime, size |-> 1, createdTime |-> "t"]
NativeItem(id, name, mime) ==
    [id |-> id, name |-> name, mimeType |-> mime, createdTime |-> "t"]

\* the items a folder may hold, in the order the provider lists them
ItemPool ==
    <<NativeItem(<<"S", "1">>, <<"S">>, FOLDER),
      FileItem(F1, NAME_R, PDF),
      NativeItem(<<"T", "1">>, <<"T">>, FOLDER)>>

\* results.get('files', []): at most MaxItems items of the pool
Responses ==
    {SelectSeq(ItemPool, LAMBDA it : it \in A)
     : A \in SmallSets(Range(ItemPool), MaxItems)}

----------------------------------------------------------------------------
(* list_folder_files *)

DefaultTypes == <<PDF, GDOC, DOCX, JPEG, PNG>>

\* the mutant: the type filter is not applied
type_matches_any(file_types, mime) == TRUE

\* not file_types or item['mimeType'] in file_types
type_matches(file_types, mime) ==
    Len(file_types) = 0 \/ \E k \in 1..Len(file_types) : file_types[k] = mime

api_record(item) ==
    [id |-> item.id, name |-> item.name, mimeType |-> item.mimeType,
     size |-> IF "size" \in DOMAIN item THEN item.size ELSE 0,
     createdTime |-> item.createdTime]

RECURSIVE filter_items(_, _)
filter_items(items, file_types) ==
    IF Len(items) = 0 THEN <<>>
    ELSE IF type_matches(file_types, Head(items).mimeType)
    THEN <<api_record(Head(items))>> \o filter_items(Tail(items), file_types)
    ELSE filter_items(Tail(items), file_types)

\* the mutant: the API is queried whether or not the public listing failed
list_folder_files_always_api(folder_url, file_types, svc) ==
    {[result |-> Return(filter_items(items, DefaultTypes)),
      log |-> <<ApiEntry("files.list", TRUE)>>] : items \in Responses}

\* every outcome of list_folder_files with self.service = svc: what it returns or
\* raises, and the entries it logs
list_folder_files(folder_url, file_types, svc) ==
    LET of(pub) ==
            IF pub.result.kind = "return"
            THEN {[result |-> pub.result, log |-> <<pub.entry>>]}
            ELSE IF ~svc
            THEN {[result |-> Raise(<<MSG_FOLDER_NEEDS_AUTH>> \o pub.result.msg
                                        \o <<MSG_AUTH_FOLDERS>>),
                   log |-> <<pub.entry>>]}
            ELSE LET types == IF file_types.none THEN DefaultTypes ELSE file_types.v
                 IN  {[result |-> Raise(<<MSG_API_ERROR>>),
                       log |-> <<pub.entry, ApiEntry("files.list", FALSE)>>]}
                     \cup {[result |-> Return(filter_items(items, types)),
                            log |-> <<pub.entry, ApiEntry("files.list", TRUE)>>]
                           : items \in Responses}
    IN  UNION {of(pub) : pub \in list_folder_files_public(folder_url, file_types)}

----------------------------------------------------------------------------
(* download_file_public and download_file *)

TEMP_DIR == <<"/", "t", "m", "p">>

\* os.path.join(self.temp_dir, file_name)
path_join(dir, file_name) ==
    IF StartsWith(file_name, SLASH) THEN file_name
    ELSE IF EndsWith(dir, SLASH) THEN dir \o file_name
    ELSE dir \o SLASH \o file_name

\* requests.get of the download url: a failed request, or a response with its
\* status, whether it looks like the warning page, and whether it holds the
\* confirmed-download link
DownloadResponses ==
    {Failed} \cup {[kind |-> "resp", status |-> st, warning |-> w, href |-> h]
                   : st \in {200, 404}, w \in BOOLEAN, h \in BOOLEAN}

\* every outcome of download_file_public: the path, or the error; and its entry
download_file_public(file_id, file_name) ==
    LET written(resp) ==
            {[result |-> Return(path_join(TEMP_DIR, file_name)),
              entry |-> PublicDownloadEntry(TRUE, resp.status, <<>>)],
             [result |-> Raise(<<MSG_IO_ERROR>>),
              entry |-> PublicDownloadEntry(FALSE, 0, <<MSG_IO_ERROR>>)]}
        failed == {[result |-> Raise(<<MSG_REQUEST_FAILED>>),
                    entry |-> PublicDownloadEntry(FALSE, 0, <<MSG_REQUEST_FAILED>>)]}
        of(first) ==
            IF first.kind = "exc" THEN failed
            ELSE IF first.warning /\ first.href
            THEN UNION {IF second.kind = "exc" THEN failed ELSE written(second)
                        : second \in DownloadResponses}
            ELSE written(first)
    IN  UNION {of(first) : first \in DownloadResponses}

\* the MIME types files.get may report
MetadataTypes == {PDF, GDOC, SHEET}

\* mime_type.startswith('application/vnd.google-apps'), 'document' in mime_type
is_google_apps(mime) == StartsWith(MimeText(mime), PREFIX_GOOGLE_APPS)
is_document(mime) == Contains(MimeText(mime), WORD_DOCUMENT)

\* the authenticated part of download_file
download_file_oauth(file_id, file_name) ==
    LET transfer(call_name, name) ==
            {[result |-> Raise(<<MSG_IO_ERROR>>), log |-> <<>>],
             [result |-> Raise(<<MSG_API_ERROR>>), log |-> <<ApiEntry(call_name, FALSE)>>],
             [result |-> Return(path_join(TEMP_DIR, name)),
              log |-> <<ApiEntry(call_name, TRUE)>>]}
        of(mime_type) ==
            LET after == IF is_google_apps(mime_type)
                         THEN IF is_document(mime_type)
                              THEN transfer("export_media",
                                            Replace(file_name, EXT_GDOC, EXT_PDF))
                              ELSE {[result |-> Raise(<<MSG_UNSUPPORTED, mime_type>>),
                                     log |-> <<>>]}
                         ELSE transfer("get_media", file_name)
            IN  {[result |-> o.result, log |-> <<ApiGetEntry(TRUE, mime_type)>> \o o.log]
                 : o \in after}
    IN  {[result |-> Raise(<<MSG_API_ERROR>>), log |-> <<ApiGetEntry(FALSE, UNKNOWN)>>]}
        \cup UNION {of(m) : m \in MetadataTypes}

\* the mutant: without a session the public error is raised as it is
download_file_plain_error(file_id, file_name, svc) ==
    LET of(pub) ==
            IF pub.result.kind = "return" \/ ~svc
            THEN {[result |-> pub.result, log |-> <<pub.entry>>]}
            ELSE {[result |-> o.result, log |-> <<pub.entry>> \o o.log]
                  : o \in download_file_oauth(file_id, file_name)}
    IN  UNION {of(pub) : pub \in download_file_public(file_id, file_name)}

\* every outcome of download_file with self.service = svc
download_file(file_id, file_name, svc) ==
    LET of(pub) ==
            IF pub.result.kind = "return"
            THEN {[result |-> pub.result, log |-> <<pub.entry>>]}
            ELSE IF ~svc
            THEN {[result |-> Raise(<<MSG_FILE_NEEDS_AUTH>> \o pub.result.msg
                                        \o <<MSG_AUTH_FILES>>),
                   log |-> <<pub.entry>>]}
            ELSE {[result |-> o.result, log |-> <<pub.entry>> \o o.log]
                  : o \in download_file_oauth(file_id, file_name)}
    IN  UNION {of(pub) : pub \in download_file_public(file_id, file_name)}

----------------------------------------------------------------------------
(* The operations that run in one step *)

\* the ids and names download_file is called with
DownloadIds == {F1}
DownloadNames == {NAME_A_PDF, NAME_D_GDOC, NAME_N_DOCX, NAME_R}

Called(op, u, types, recursive, file_id, file_name) ==
    [op |-> op, folder_url |-> u, file_types |-> types, recursive |-> recursive,
     file_id |-> file_id, file_name |-> file_name]

ListFolderFilesPublic ==
    /\ pc = "idle"
    /\ \E u \in RootUrls, types \in TypeArgs :
        /\ call' = Called("list_folder_files_public", u.url, types, FALSE, <<>>, <<>>)
        /\ denotes' = u.denotes
        /\ \E o \in list_folder_files_public(u.url, types) :
            /\ result' = o.result
            /\ log' = <<o.entry>>
    /\ pc' = "done"
    /\ UNCHANGED <<service, stack, all_files, under, queries, trace, files, idx,
                   downloaded_files, attempts>>

ListFolderFiles ==
    /\ pc = "idle"
    /\ \E u \in RootUrls, types \in TypeArgs :
        /\ call' = Called("list_folder_files", u.url, types, FALSE, <<>>, <<>>)
        /\ denotes' = u.denotes
        /\ \E o \in list_folder_files(u.url, types, service) :
            /\ result' = o.result
            /\ log' = o.log
    /\ pc' = "done"
    /\ UNCHANGED <<service, stack, all_files, under, queries, trace, files, idx,
                   downloaded_files, attempts>>

DownloadFile ==
    /\ pc = "idle"
    /\ \E file_id \in DownloadIds, file_name \in DownloadNames :
        /\ call' = Called("download_file", <<>>, NoTypes, FALSE, file_id, file_name)
        /\ \E o \in download_file(file_id, file_name, service) :
            /\ result' = o.result
            /\ log' = o.log
    /\ pc' = "done"
    /\ UNCHANGED <<service, denotes, stack, all_files, under, queries, trace, files, idx,
                   downloaded_files, attempts>>

----------------------------------------------------------------------------
(* list_folder_recursive *)

\* an activation of _recurse_folder: its arguments, whether its query was
\* answered, the items of the answer and the position of its for loop; names
\* are the names of the subfolders entered on the way to it
Frame(folder_id, path, names) ==
    [folder_id |-> folder_id, path |-> path, queried |-> FALSE, items |-> <<>>,
     i |-> 1, names |-> names]

\* the mutant: the path of the folder is not carried into its items
child_path_name_only(path, name) == name

\* f"{path}/{item['name']}" if path else item['name']
child_path(path, name) == IF path # <<>> THEN path \o SLASH \o name ELSE name

recursive_record(item, path) ==
    [id |-> item.id, name |-> item.name, mimeType |-> item.mimeType,
     size |-> IF "size" \in DOMAIN item THEN item.size ELSE 0,
     createdTime |-> item.createdTime,
     path |-> child_path(path, item.name)]

\* the mutant: no item is taken for a folder
is_folder_never(item) == FALSE

\* item['mimeType'] == 'application/vnd.google-apps.folder'
is_folder(item) == item.mimeType = FOLDER

\* list_folder_recursive up to the first call of _recurse_folder: without a
\* session it raises
EnterRecursion(u) ==
    /\ denotes' = u.denotes
    /\ all_files' = <<>>
    /\ under' = <<>>
    /\ queries' = 0
    /\ trace' = <<>>
    /\ log' = <<>>
    /\ IF ~service
       THEN /\ result' = Raise(<<MSG_NOT_AUTHENTICATED>>)
            /\ pc' = "done"
            /\ stack' = <<>>
       ELSE /\ result' = NoResult
            /\ pc' = "recurse"
            /\ stack' = <<Frame(extract_folder_id(u.url), <<>>, <<>>)>>

\* the outermost _recurse_folder returned: list_folder_recursive returns
\* all_files, to its caller or into download_folder's loop
LeaveRecursion ==
    IF call.op = "list_folder_recursive"
    THEN /\ result' = Return(all_files)
         /\ pc' = "done"
         /\ UNCHANGED <<files, idx>>
    ELSE /\ files' = all_files
         /\ idx' = 1
         /\ pc' = "downloads"
         /\ UNCHANGED result

\* one list query, as trace records it
Asked(folder_id, ok, items) == [folder_id |-> folder_id, ok |-> ok, items |-> items]

\* the activations left when the running ones are cut down to rest: the loop of
\* the innermost of them goes on, or list_folder_recursive goes on after its call
Unwind(rest) ==
    /\ stack' = rest
    /\ IF rest = <<>> THEN LeaveRecursion ELSE UNCHANGED <<pc, result, files, idx>>

\* the mutant: the error of a list query is caught by no activation
caught_nowhere(stk) == <<>>

\* except Exception: the error of a list query is caught in the activation that
\* issued it, which ends there; the activations that called it are left as they are
caught(stk) == SubSeq(stk, 1, Len(stk) - 1)

\* the innermost activation returns
PopFrame == Unwind(SubSeq(stack, 1, Len(stack) - 1))

ListFolderRecursive ==
    /\ pc = "idle"
    /\ \E u \in RootUrls, types \in TypeArgs :
        /\ call' = Called("list_folder_recursive", u.url, types, FALSE, <<>>, <<>>)
        /\ EnterRecursion(u)
    /\ UNCHANGED <<service, files, idx, downloaded_files, attempts>>

\* the list query of the innermost activation: it fails (the except clause ends
\* the activation) or it is answered
RecurseQuery ==
    /\ pc = "recurse"
    /\ ~stack[Len(stack)].queried
    /\ queries < MaxQueries
    /\ queries' = queries + 1
    /\ \/ /\ log' = Append(log, ApiEntry("files.list", FALSE))
          /\ trace' = Append(trace, Asked(stack[Len(stack)].folder_id, FALSE, <<>>))
          /\ Unwind(caught(stack))
       \/ \E items \in Responses :
            /\ log' = Append(log, ApiEntry("files.list", TRUE))
            /\ trace' = Append(trace, Asked(stack[Len(stack)].folder_id, TRUE, items))
            /\ stack' = [stack EXCEPT ![Len(stack)].queried = TRUE,
                                      ![Len(stack)].items = items]
            /\ UNCHANGED <<pc, result, files, idx>>
    /\ UNCHANGED <<service, call, denotes, all_files, under, downloaded_files, attempts>>

\* one iteration of the for loop of the innermost activation
RecurseItem ==
    /\ pc = "recurse"
    /\ stack[Len(stack)].queried
    /\ stack[Len(stack)].i <= Len(stack[Len(stack)].items)
    /\ LET top == stack[Len(stack)]
           item == top.items[top.i]
           file_types == IF call.file_types.none THEN <<>> ELSE call.file_types.v
           advanced == [stack EXCEPT ![Len(stack)].i = top.i + 1]
       IN  IF is_folder(item)
           THEN /\ stack' = Append(advanced,
                                   Frame(item.id, child_path(top.path, item.name),
                                         Append(top.names, item.name)))
                /\ UNCHANGED <<all_files, under>>
           ELSE /\ stack' = advanced
                /\ IF type_matches(file_types, item.mimeType)
                   THEN /\ all_files' = Append(all_files, recursive_record(item, top.path))
                        /\ under' = Append(under, top.names)
                   ELSE UNCHANGED <<all_files, under>>
    /\ UNCHANGED <<service, pc, call, denotes, queries, trace, files, idx,
                   downloaded_files, attempts, result, log>>

\* the for loop of the innermost activation is over
RecurseReturn ==
    /\ pc = "recurse"
    /\ stack[Len(stack)].queried
    /\ stack[Len(stack)].i > Len(stack[Len(stack)].items)
    /\ PopFrame
    /\ UNCHANGED <<service, call, denotes, all_files, under, queries, trace,
                   downloaded_files, attempts, log>>

----------------------------------------------------------------------------
(* download_folder *)

\* {**file_info, 'local_path': file_path}
with_local_path(file_info, file_path) ==
    [k \in DOMAIN file_info \cup {"local_path"} |->
        IF k = "local_path" THEN file_path ELSE file_info[k]]

\* the mutant: a file whose download failed is kept, without a path
downloaded_after_keep_all(downloaded, file_info, outcome) ==
    Append(downloaded, with_local_path(file_info,
        IF outcome.kind = "return" THEN outcome.value ELSE <<>>))

\* the body of the for loop: the file is appended unless download_file raised
downloaded_after(downloaded, file_info, outcome) ==
    IF outcome.kind = "return"
    THEN Append(downloaded, with_local_path(file_info, outcome.value))
    ELSE downloaded

\* download_folder up to its for loop
DownloadFolder ==
    /\ pc = "idle"
    /\ downloaded_files' = <<>>
    /\ attempts' = <<>>
    /\ \E u \in RootUrls, recursive \in BOOLEAN :
        /\ call' = Called("download_folder", u.url, NoTypes, recursive, <<>>, <<>>)
        /\ IF recursive
           THEN /\ EnterRecursion(u)
                /\ UNCHANGED <<files, idx>>
           ELSE /\ denotes' = u.denotes
                /\ \E o \in list_folder_files(u.url, NoTypes, service) :
                    /\ log' = o.log
                    /\ IF o.result.kind = "raise"
                       THEN /\ result' = o.result
                            /\ pc' = "done"
                            /\ UNCHANGED <<files, idx>>
                       ELSE /\ files' = o.result.value
                            /\ idx' = 1
                            /\ pc' = "downloads"
                            /\ UNCHANGED result
                /\ UNCHANGED <<stack, all_files, under, queries, trace>>
    /\ UNCHANGED service

\* one iteration of the for loop: download_file of files[idx]
DownloadStep ==
    /\ pc = "downloads"
    /\ idx <= Len(files)
    /\ \E o \in download_file(files[idx].id, files[idx].name, service) :
        /\ downloaded_files' = downloaded_after(downloaded_files, files[idx], o.result)
        /\ attempts' = Append(attempts, o.result.kind = "return")
        /\ log' = o.log
    /\ idx' = idx + 1
    /\ UNCHANGED <<service, pc, call, denotes, stack, all_files, under, queries, trace, files,
                   result>>

\* the for loop is over: return downloaded_files
DownloadFolderReturn ==
    /\ pc = "downloads"
    /\ idx > Len(files)
    /\ result' = Return(downloaded_files)
    /\ pc' = "done"
    /\ UNCHANGED <<service, call, denotes, stack, all_files, under, queries, trace, files, idx,
                   downloaded_files, attempts, log>>

Next ==
    \/ ListFolderFilesPublic
    \/ ListFolderFiles
    \/ DownloadFile
    \/ ListFolderRecursive
    \/ RecurseQuery
    \/ RecurseItem
    \/ RecurseReturn
    \/ DownloadFolder
    \/ DownloadStep
    \/ DownloadFolderReturn

Spec == Init /\ [][Next]_vars

\* _recurse_folder runs in one thread with nothing to wait for but the answer
\* of its query: a step of it that can be taken is taken
Fairness ==
    /\ WF_vars(RecurseQuery)
    /\ WF_vars(RecurseItem)
    /\ WF_vars(RecurseReturn)

SpecLive == Spec /\ Fairness

----------------------------------------------------------------------------
(* Properties *)

Done(op) == pc = "done" /\ call.op = op
Returned == result.kind = "return"
Raised == result.kind = "raise"

\* the public attempt that goes before an API call
PublicOf(api) ==
    IF api = "files.list" THEN "list_folder_files_public" ELSE "download_file_public"

\* the API call log[i] comes after a failed public attempt of its step
FellBack(i) ==
    \E j \in 1..(i - 1) :
        ~log[j].auth /\ log[j].call = PublicOf(log[i].call) /\ ~log[j].ok

InRecursiveListing ==
    call.op = "list_folder_recursive" \/ (call.op = "download_folder" /\ call.recursive)

\* C1 as stated: in list_folder_files, download_file and download_folder, every
\* call of the provider's API comes after a failed public attempt of the same
\* step, and with a session
C1_PublicAttemptFirst ==
    call.op \in {"list_folder_files", "download_file", "download_folder"} =>
        \A i \in 1..Len(log) : log[i].auth => service /\ FellBack(i)

\* C1 amended: every call of the provider's API is made with a session, and
\* comes after a failed public attempt of the same step unless it is a list
\* query of the recursive listing
C1_PublicAttemptFirstOutsideRecursion ==
    \A i \in 1..Len(log) :
        log[i].auth =>
            /\ service
            /\ FellBack(i) \/ (InRecursiveListing /\ log[i].call = "files.list")

C1_FellBackWitness ==
    /\ Done("download_folder")
    /\ ~call.recursive
    /\ Len(files) >= 1
    /\ \E i \in 1..Len(log) : log[i].auth /\ log[i].ok /\ FellBack(i)

\* C2: download_file, when the public download fails and there is no session,
\* raises an error that holds the public error's message and the request to
\* authenticate, calls no API and returns no path
C2_NoSessionNoFallback ==
    (Done("download_file") /\ ~service /\ ~log[1].ok) =>
        /\ Raised
        /\ log[1].error # <<>>
        /\ Contains(result.msg, log[1].error)
        /\ Contains(result.msg, <<MSG_AUTH_FILES>>)
        /\ \A i \in 1..Len(log) : ~log[i].auth

C2_NoSessionWitness ==
    Done("download_file") /\ ~service /\ ~log[1].ok /\ Raised

\* the records of fs whose download returned
RECURSIVE Kept(_, _)
Kept(fs, oks) ==
    IF Len(fs) = 0 THEN <<>>
    ELSE (IF Head(oks) THEN <<Head(fs)>> ELSE <<>>) \o Kept(Tail(fs), Tail(oks))

WithoutLocalPath(r) == [k \in DOMAIN r \ {"local_path"} |-> r[k]]

Failures == Cardinality({k \in 1..Len(attempts) : ~attempts[k]})

\* C3: download_folder, once it has its listing, attempts every file whatever
\* failed before, does not raise, and returns the records of the files whose
\* download returned, in listing order, each with its local_path
C3_FailuresAreSkipped ==
    /\ pc = "downloads" => Len(attempts) = idx - 1
    /\ (Done("download_folder") /\ idx >= 1) =>
        /\ Returned
        /\ Len(attempts) = Len(files)
        /\ Len(result.value) = Len(files) - Failures
        /\ Len(result.value) = Len(Kept(files, attempts))
        /\ \A k \in 1..Len(result.value) :
            /\ "local_path" \in DOMAIN result.value[k]
            /\ result.value[k].local_path # <<>>
            /\ WithoutLocalPath(result.value[k]) = Kept(files, attempts)[k]

C3_OneFailureWitness ==
    /\ Done("download_folder")
    /\ Len(files) = 2
    /\ files[1].id # files[2].id
    /\ attempts = <<FALSE, TRUE>>
    /\ Returned
    /\ Len(result.value) = 1

FlatListed(op) == Done(op) /\ call.file_types = SomeTypes(<<PDF>>) /\ Returned

\* C4 as stated: with the filter [application/pdf], every record of a listing
\* has a name that ends in ".pdf"
C4_NamesEndInPdf ==
    (FlatListed("list_folder_files_public") \/ FlatListed("list_folder_files")) =>
        \A k \in 1..Len(result.value) : EndsWith(result.value[k].name, EXT_PDF)

\* C4 amended: with the filter [application/pdf], every record of the public
\* listing has a name that ends in ".pdf" once lowercased, and every record of
\* the authenticated listing has the MIME type application/pdf
C4_PdfByExtensionOrByType ==
    (FlatListed("list_folder_files_public") \/ FlatListed("list_folder_files")) =>
        \A k \in 1..Len(result.value) :
            IF log[Len(log)].auth
            THEN result.value[k].mimeType = PDF
            ELSE EndsWith(Lower(result.value[k].name), EXT_PDF)

C4_AuthenticatedPdfWitness ==
    /\ FlatListed("list_folder_files")
    /\ log[Len(log)].auth
    /\ Len(result.value) >= 1

\* C5: extract_folder_id returns the folder id the url was written for
C5_ReturnsTheFolderId ==
    Done("extract_folder_id") => result = Return(denotes)

\* C6: list_folder_files_public returns the empty list when the folder page
\* came with status 200 and no candidate id was found in it, and raises exactly
\* when the folder page did not come with status 200
C6_EmptyPageListsNothing ==
    Done("list_folder_files_public") =>
        /\ (log[1].status = 200 /\ log[1].found = {}) => result = Return(<<>>)
        /\ Raised <=> log[1].status # 200

C6_RefetchFailedWitness ==
    /\ Done("list_folder_files_public")
    /\ log[1].status = 200
    /\ log[1].found = {}
    /\ log[1].refetch = "exc"
    /\ result = Return(<<>>)

\* C8: when download_file returns for a file whose MIME type (as files.get
\* reports it) is the provider-native document type, the local path ends in ".pdf"
C8_ExportIsNamedPdf ==
    (Done("download_file") /\ Returned
        /\ \E i \in 1..Len(log) : log[i].call = "files.get" /\ log[i].mime = GDOC) =>
        EndsWith(result.value, EXT_PDF)

\* C9: the path of every record of the recursive listing is the names of the
\* subfolders entered on the way to it and then its own name, joined by "/";
\* list_folder_recursive returns these records
C9_PathIsFolderNamesThenName ==
    /\ Len(under) = Len(all_files)
    /\ \A k \in 1..Len(all_files) :
        all_files[k].path = Join(under[k] \o <<all_files[k].name>>, SLASH)
    /\ (Done("list_folder_recursive") /\ Returned) => result.value = all_files

C9_SubfolderFileWitness ==
    /\ Done("list_folder_recursive")
    /\ Returned
    /\ queries = 2
    /\ under = << <<"S">> >>
    /\ Len(result.value) = 1
    /\ result.value[1].path = <<"S", "/", "r">>

\* C10: the records of one listing have different ids, and the public listing
\* holds no record with the folder's own id
C10_IdsAreUnique ==
    ((Done("list_folder_files_public") \/ Done("list_folder_files")
        \/ Done("list_folder_recursive")) /\ Returned) =>
        /\ \A j, k \in 1..Len(result.value) :
            j # k => result.value[j].id # result.value[k].id
        /\ call.op = "list_folder_files_public" =>
            \A k \in 1..Len(result.value) : result.value[k].id # denotes

----------------------------------------------------------------------------
(* The recursive listing against the queries it made *)

\* the filter list_folder_recursive was called with: none for download_folder
FilterOfCall == IF call.file_types.none THEN <<>> ELSE call.file_types.v

\* The listing the answers recorded in trace stand for, read depth first: the
\* k-th query is the one of the folder at hand; a query that was not answered
\* gives no record; every folder of an answer takes the next query not yet
\* read. fits tells whether each query read was made for the folder it is read
\* for; next is the first query not read.
RECURSIVE ListingOfFolder(_, _, _), ListingOfItems(_, _, _, _)
ListingOfFolder(k, folder_id, path) ==
    IF k > Len(trace)
    THEN [records |-> <<>>, next |-> k, fits |-> FALSE]
    ELSE IF ~trace[k].ok
    THEN [records |-> <<>>, next |-> k + 1, fits |-> trace[k].folder_id = folder_id]
    ELSE LET below == ListingOfItems(trace[k].items, 1, path, k + 1)
         IN  [below EXCEPT !.fits = below.fits /\ trace[k].folder_id = folder_id]

ListingOfItems(items, i, path, k) ==
    IF i > Len(items)
    THEN [records |-> <<>>, next |-> k, fits |-> TRUE]
    ELSE LET item == items[i]
             here == IF item.mimeType = FOLDER
                     THEN ListingOfFolder(k, item.id, child_path(path, item.name))
                     ELSE [records |-> IF type_matches(FilterOfCall, item.mimeType)
                                       THEN <<recursive_record(item, path)>>
                                       ELSE <<>>,
                           next |-> k, fits |-> TRUE]
             rest == ListingOfItems(items, i + 1, path, here.next)
         IN  [records |-> here.records \o rest.records,
              next |-> rest.next,
              fits |-> here.fits /\ rest.fits]

ListingOfTrace == ListingOfFolder(1, denotes, <<>>)

FailedQueries == {k \in 1..Len(trace) : ~trace[k].ok}

\* C11: list_folder_recursive with a session returns whatever list queries
\* failed, the root's included, and never raises; what it returns (and what
\* download_folder then downloads) is the depth-first listing of the answers
\* with nothing but the records beneath the folders whose query failed left
\* out: the records emitted before a failure and those of the folders and
\* files listed after the failing folder are all there
C11_FailedQueryLosesItsBranchOnly ==
    /\ (Done("list_folder_recursive") /\ service) =>
        /\ Returned
        /\ result.value = ListingOfTrace.records
        /\ ListingOfTrace.fits
    /\ (call.op = "download_folder" /\ call.recursive /\ service
            /\ pc \in {"downloads", "done"}) =>
        /\ files = ListingOfTrace.records
        /\ pc = "done" => Returned

\* the query of subfolder S failed; the file listed after S is returned
C11_SiblingAfterFailureWitness ==
    /\ Done("list_folder_recursive")
    /\ Len(trace) = 2
    /\ trace[1].ok
    /\ Len(trace[1].items) = 2
    /\ trace[1].items[1].mimeType = FOLDER
    /\ trace[1].items[2].mimeType # FOLDER
    /\ FailedQueries = {2}
    /\ Len(result.value) = 1
    /\ result.value[1].id = trace[1].items[2].id

\* C12: when the response of the public download that download_file acts on
\* has a status other than 200, the public download fails (it returns no
\* path): with a session download_file goes on to the provider's API, and
\* without one it raises
C12_Non200FailsThePublicDownload ==
    (Done("download_file") /\ log[1].status \notin {0, 200}) =>
        /\ ~log[1].ok
        /\ service => \E i \in 1..Len(log) : log[i].auth
        /\ ~service => Raised

----------------------------------------------------------------------------
(* The folders the recursive listing asks for *)

\* the places of the answers so far that hold a folder
ListedFolders ==
    {p \in (1..Len(trace)) \X (1..MaxItems + 1) :
        /\ trace[p[1]].ok
        /\ p[2] <= Len(trace[p[1]].items)
        /\ trace[p[1]].items[p[2]].mimeType = FOLDER}

FolderAt(p) == trace[p[1]].items[p[2]].id

\* the root folder of the running listing
RootFolder == extract_folder_id(call.folder_url)

\* the answers so far are those of a tree: no folder is listed twice (one
\* parent each) and the root is listed nowhere (no cycle)
TreeSoFar ==
    /\ \A p, q \in ListedFolders : FolderAt(p) = FolderAt(q) => p = q
    /\ \A p \in ListedFolders : FolderAt(p) # RootFolder

InRecursion == pc = "recurse"

\* the recursive listing is over: returned, or handed to the download loop
RecursionOver == InRecursiveListing /\ service /\ pc \in {"downloads", "done"}

\* every folder is asked for once, and the folders asked for are the root and
\* the folders the answers list
C13_OneQueryEach ==
    (RecursionOver /\ TreeSoFar) =>
        /\ \A j, k \in 1..Len(trace) : trace[j].folder_id = trace[k].folder_id => j = k
        /\ {trace[k].folder_id : k \in 1..Len(trace)}
               = {RootFolder} \cup {FolderAt(p) : p \in ListedFolders}
        /\ queries = Len(trace)

\* on a tree the bound on the queries of the model stops no listing
C13_TreeWithinBound ==
    (InRecursion /\ TreeSoFar /\ ~stack[Len(stack)].queried) => queries < MaxQueries

\* no record of the folders visited is kept: a folder of an answer is entered
\* whether or not it is the root, is being listed, or was listed before
C13_EveryFolderIsEntered ==
    (/\ InRecursion
     /\ stack[Len(stack)].queried
     /\ stack[Len(stack)].i <= Len(stack[Len(stack)].items)
     /\ stack[Len(stack)].items[stack[Len(stack)].i].mimeType = FOLDER)
    => /\ Len(stack') = Len(stack) + 1
       /\ stack'[Len(stack')].folder_id
              = stack[Len(stack)].items[stack[Len(stack)].i].id
       /\ ~stack'[Len(stack')].queried

\* C13: on a tree of folders (each folder listed by one folder, the root by
\* none) list_folder_recursive comes to its end and has then asked exactly
\* once for the root and for each folder that the answered queries list; it
\* enters every folder an answer lists without looking whether it was there
\* before, so nothing ends the listing of a folder that is listed beneath itself
C13_TerminatesOnTreesOnly ==
    /\ [](C13_OneQueryEach /\ C13_TreeWithinBound)
    /\ [][C13_EveryFolderIsEntered]_vars
    /\ (InRecursion /\ TreeSoFar) ~> (~InRecursion \/ ~TreeSoFar)

\* a tree two folders deep was listed to its end with three queries
C13_NestedTreeWitness ==
    /\ Done("list_folder_recursive")
    /\ Returned
    /\ TreeSoFar
    /\ Len(trace) = 3
    /\ \A k \in 1..3 : trace[k].ok
    /\ \E i \in 1..Len(trace[2].items) : trace[2].items[i].id = trace[3].folder_id

\* a folder is being listed beneath itself
C13_FolderBeneathItself ==
    /\ InRecursion
    /\ \E j, k \in 1..Len(stack) : j < k /\ stack[j].folder_id = stack[k].folder_id

============================================================================
